---- MODULE Spec2Model ----
(***************************************************************************)
(* Secure-File-Statement-Delivery, Backend/main.py: identity resolution,   *)
(* session tokens and the download (capability) token codec, as a state    *)
(* machine over the user store, the document store and the clock.          *)
(*                                                                         *)
(* Text is modelled as sequences of one-character strings, so that         *)
(* formatting (f-strings), split("|") and int() are computed rather than   *)
(* assumed.  HMAC-SHA256 and argon2 are idealised: collision-free, keyed   *)
(* (resp. salted) and only computable with the key.                        *)
(***************************************************************************)
EXTENDS Integers, Sequences, FiniteSets, TLC

VARIABLES
    now,        \* int(time.time()): the clock, in whole seconds
    settings,   \* config.Settings, loaded once at process start
    users,      \* rows of the "users" table
    docs,       \* rows of the "documents" table
    pending,    \* register requests between their existence check and insert
    sessions,   \* session tokens handed out by register / login so far
    links,      \* download tokens handed out by request_download_token so far
    wire,       \* harness: the token under test
    minted,     \* harness: the call (make_download_token or
                \* create_access_token) that made wire
    resp,       \* the response of the last handled request
    tmp,        \* tempfile.gettempdir(): the files in it, path |-> content
    streams     \* download requests in flight: where each is in
                \* download_document and what it has streamed

vars == <<now, settings, users, docs, pending, sessions, links, wire, minted, resp,
          tmp, streams>>

-----------------------------------------------------------------------------
(* Bounds *)

ClockStart == 8         \* clock value at process start
MaxTime == 11           \* the clock stops advancing here
MaxPending == 2         \* register requests in flight at once
MaxSessions == 2        \* session tokens clients keep
MaxDocs == 1            \* rows of the documents table
MaxLinks == 1           \* download tokens handed out
MaxId == 10             \* largest id handed to the codec harness
MaxMinutes == 1         \* whole minutes the clock may jump ahead

\* values of DOWNLOAD_TOKEN_TTL_SECONDS the service is started with
TtlChoices == {1, 2}

\* the value of ACCESS_TOKEN_EXPIRE_MINUTES the session service is started
\* with, so that a session outlives the capability tokens and still expires
\* within MaxMinutes
ExpireMinuteChoices == {1}

\* salts argon2 may draw
Salts == {1}

-----------------------------------------------------------------------------
(* Text *)

Digits == <<"0", "1", "2", "3", "4", "5", "6", "7", "8", "9">>

DigitSet == {Digits[i] : i \in 1..10}

HexLetters == {"a", "b", "c", "d", "e", "f"}

DigitChar(n) == Digits[n + 1]

DigitVal(c) == CHOOSE n \in 0..9 : Digits[n + 1] = c

\* mutant: only the last digit is written
NatToStr_last_digit(n) == <<DigitChar(n % 10)>>

RECURSIVE NatToStr(_)
NatToStr(n) ==
    IF n < 10 THEN <<DigitChar(n)>>
    ELSE NatToStr(n \div 10) \o <<DigitChar(n % 10)>>

\* f"{n}" for an int n
IntToStr(n) == IF n < 0 THEN <<"-">> \o NatToStr(0 - n) ELSE NatToStr(n)

\* datetime.isoformat() of the clock value t, a time within the first hour of
\* 1970-01-01, whole seconds
IsoFormat(t) ==
    <<"1", "9", "7", "0", "-", "0", "1", "-", "0", "1", "T", "0", "0", ":",
      DigitChar((t \div 60) \div 10), DigitChar((t \div 60) % 10), ":",
      DigitChar((t % 60) \div 10), DigitChar((t % 60) % 10)>>

AllDigits(s) == s # <<>> /\ \A i \in 1..Len(s) : s[i] \in DigitSet

RECURSIVE DigitsToNat(_)
DigitsToNat(s) ==
    IF Len(s) = 1 THEN DigitVal(s[1])
    ELSE 10 * DigitsToNat(SubSeq(s, 1, Len(s) - 1)) + DigitVal(s[Len(s)])

\* int(s) raises ValueError exactly when IsNumeric(s) is false
IsNumeric(s) ==
    \/ AllDigits(s)
    \/ Len(s) >= 2 /\ s[1] \in {"-", "+"} /\ AllDigits(Tail(s))

\* int(s) for a string int() accepts
ParseInt(s) ==
    IF AllDigits(s) THEN DigitsToNat(s)
    ELSE IF s[1] = "-" THEN 0 - DigitsToNat(Tail(s))
    ELSE DigitsToNat(Tail(s))

\* s.split("|")
RECURSIVE Split(_)
Split(s) ==
    LET bars == {i \in 1..Len(s) : s[i] = "|"} IN
    IF bars = {} THEN <<s>>
    ELSE LET i == CHOOSE j \in bars : \A k \in bars : j <= k IN
         <<SubSeq(s, 1, i - 1)>> \o Split(SubSeq(s, i + 1, Len(s)))

\* s.split(sep)
RECURSIVE SplitOn(_, _)
SplitOn(s, sep) ==
    LET seps == {i \in 1..Len(s) : s[i] = sep} IN
    IF seps = {} THEN <<s>>
    ELSE LET i == CHOOSE j \in seps : \A k \in seps : j <= k IN
         <<SubSeq(s, 1, i - 1)>> \o SplitOn(SubSeq(s, i + 1, Len(s)), sep)

\* "|".join(parts)
RECURSIVE Join(_)
Join(parts) ==
    IF Len(parts) = 0 THEN <<>>
    ELSE IF Len(parts) = 1 THEN parts[1]
    ELSE parts[1] \o <<"|">> \o Join(Tail(parts))

-----------------------------------------------------------------------------
(* Secrets and keyed hashing *)

SECRET_KEY == "secret_key"
SERVER_SELECTOR_SECRET == "server_selector_secret"
DOWNLOAD_SECRET == "download_secret"
ATTACKER_KEY == "attacker_key"      \* any key that is not a server secret

KeyTag(key) ==
    CASE key = SECRET_KEY -> "5"
      [] key = SERVER_SELECTOR_SECRET -> "e"
      [] key = DOWNLOAD_SECRET -> "d"
      [] OTHER -> "a"

\* the two hex digits of one character (its ASCII code)
HexOf(c) ==
    CASE c \in DigitSet -> <<"3", c>>
      [] c = "a" -> <<"6", "1">>
      [] c = "b" -> <<"6", "2">>
      [] c = "c" -> <<"6", "3">>
      [] c = "d" -> <<"6", "4">>
      [] c = "e" -> <<"6", "5">>
      [] c = "f" -> <<"6", "6">>
      [] c = "|" -> <<"7", "c">>
      [] c = "-" -> <<"2", "d">>
      [] c = "+" -> <<"2", "b">>
      [] OTHER -> <<"7", "8">>

RECURSIVE HexEncode(_)
HexEncode(s) == IF s = <<>> THEN <<>> ELSE HexOf(Head(s)) \o HexEncode(Tail(s))

\* hmac.new(key, msg, sha256).hexdigest(), idealised: a lowercase hex string
\* that is a collision-free function of (key, msg)
HmacHexDigest(key, msg) == <<KeyTag(key)>> \o HexEncode(msg)

-----------------------------------------------------------------------------
(* Download token codec *)

None == [none |-> TRUE]

\* mutant: the expiry field carries the TTL instead of the time it ends at
make_download_token_relative(doc_id, owner_id) ==
    LET expiry_ts == settings.download_token_ttl_seconds
        payload == IntToStr(doc_id) \o <<"|">> \o IntToStr(owner_id)
                       \o <<"|">> \o IntToStr(expiry_ts)
        signature == HmacHexDigest(DOWNLOAD_SECRET, payload)
    IN  payload \o <<"|">> \o signature

\* make_download_token(doc_id, owner_id)
make_download_token(doc_id, owner_id) ==
    LET expiry_ts == now + settings.download_token_ttl_seconds
        payload == IntToStr(doc_id) \o <<"|">> \o IntToStr(owner_id)
                       \o <<"|">> \o IntToStr(expiry_ts)
        signature == HmacHexDigest(DOWNLOAD_SECRET, payload)
    IN  payload \o <<"|">> \o signature

\* len(parts) != 4
WrongFieldCount(parts) == Len(parts) # 4

\* mutant: only the lengths are compared
compare_digest_length(expected_signature, signature) ==
    Len(expected_signature) = Len(signature)

\* hmac.compare_digest(expected_signature, signature)
compare_digest(expected_signature, signature) == expected_signature = signature

\* mutant: the expiry second itself is already refused
Expired_inclusive(clock, expiry) == clock >= expiry

\* int(time.time()) > int(expiry_ts), the clock reading clock
Expired(clock, expiry) == clock > expiry

\* the exception int() raises inside verify_download_token's try block
ValueError == [error |-> "ValueError"]

\* the body of verify_download_token's try block (main.py 316-335): None, the
\* dict {doc_id, owner_id}, or the exception it raises; clock is what
\* time.time() reads
verify_try(token, clock) ==
    LET parts == Split(token) IN
    IF WrongFieldCount(parts) THEN None
    ELSE
      LET doc_id == parts[1]
          owner_id == parts[2]
          expiry_ts == parts[3]
          signature == parts[4]
          payload == doc_id \o <<"|">> \o owner_id \o <<"|">> \o expiry_ts
          expected_signature == HmacHexDigest(DOWNLOAD_SECRET, payload)
      IN  IF ~compare_digest(expected_signature, signature) THEN None
          ELSE IF ~IsNumeric(expiry_ts) THEN ValueError
          ELSE IF Expired(clock, ParseInt(expiry_ts)) THEN None
          ELSE IF ~IsNumeric(doc_id) \/ ~IsNumeric(owner_id) THEN ValueError
          ELSE [doc_id |-> ParseInt(doc_id), owner_id |-> ParseInt(owner_id)]

\* mutant: the exception is not caught
except_reraise(result) == result

\* except Exception: return None (main.py 336-337)
except_return_none(result) == IF result = ValueError THEN None ELSE result

\* verify_download_token(token): None, or the dict {doc_id, owner_id}
verify_download_token(token) == except_return_none(verify_try(token, now))

-----------------------------------------------------------------------------
(* Identity: selector, credential hash, session token *)

IdLen == 13

ID_A == <<"9", "0", "0", "1", "0", "1", "5", "0", "0", "9", "0", "8", "7">>
ID_B == <<"8", "5", "0", "6", "2", "3", "5", "1", "1", "1", "0", "8", "2">>
ID_SHORT == <<"9", "0", "0", "1", "0", "1">>
ID_LONG == ID_A \o <<"0">>
ID_ALPHA == <<"9", "0", "0", "1", "0", "1", "5", "0", "0", "9", "0", "8", "x">>

\* identifiers a client may submit
IdNumbers == {ID_A, ID_B, ID_SHORT, ID_LONG, ID_ALPHA}

MOCK_USER_NAME == <<"T", "e", "s", "t", " ", "U", "s", "e", "r">>

Names == {MOCK_USER_NAME}

\* mutant: only max_length is enforced
RegisterIn_max_only(id_number) == Len(id_number) <= IdLen /\ AllDigits(id_number)

\* schemas.RegisterIn: id_number matches ^\d{13}$
RegisterIn(id_number) == Len(id_number) = IdLen /\ AllDigits(id_number)

\* create_selector(id_number)
create_selector(id_number) == HmacHexDigest(SERVER_SELECTOR_SECRET, id_number)

\* argon2, idealised: one-way and collision-free in (salt, password)
Argon2(salt, password) == <<"argon2", salt, password>>

\* mutant: the password is stored as it is
get_password_hash_plain(password, salt) ==
    [scheme |-> "plain", salt |-> salt, digest |-> password]

\* get_password_hash(password); passlib draws the salt
get_password_hash(password, salt) ==
    [scheme |-> "argon2", salt |-> salt, digest |-> Argon2(salt, password)]

\* mutant: the hash is recomputed with a salt other than the stored one
verify_password_other_salt(plain_password, hashed_password) ==
    hashed_password.digest = Argon2(hashed_password.salt + 1, plain_password)

\* verify_password(plain_password, hashed_password)
verify_password(plain_password, hashed_password) ==
    hashed_password.digest = Argon2(hashed_password.salt, plain_password)

AccessTokenExpireMinutes == 30

DownloadTokenTtlSeconds == 180

\* HS256 signature over the claims, idealised
JwtSignature(key, claims) == <<"HS256", key, claims>>

\* jwt.encode(claims, key, algorithm="HS256")
jwt_encode(claims, key) == [claims |-> claims, signature |-> JwtSignature(key, claims)]

JWTError == [error |-> "JWTError"]

\* mutant: a token past its expiry is still decoded
jwt_decode_no_exp(token, key) ==
    IF ~({"claims", "signature"} \subseteq DOMAIN token) THEN JWTError
    ELSE IF token.signature # JwtSignature(key, token.claims) THEN JWTError
    ELSE token.claims

\* jwt.decode(token, key, algorithms=["HS256"]): the claims, or JWTError
\* (not a JWS at all, bad signature, or ExpiredSignatureError)
jwt_decode(token, key) ==
    IF ~({"claims", "signature"} \subseteq DOMAIN token) THEN JWTError
    ELSE IF token.signature # JwtSignature(key, token.claims) THEN JWTError
    ELSE IF "exp" \in DOMAIN token.claims /\ token.claims.exp < now THEN JWTError
    ELSE token.claims

\* the string jwt.encode returns: header, claims and signature as three
\* segments joined by "."; base64url is idealised as the hex encoding, whose
\* alphabet has neither "." nor "|" either
jwt_compact(token) ==
    LET header == HexEncode(<<"H", "S", "2", "5", "6">>)
        claims == HexEncode(
            (IF "sub" \in DOMAIN token.claims THEN token.claims.sub ELSE <<>>)
            \o <<"_">> \o
            (IF "exp" \in DOMAIN token.claims THEN IntToStr(token.claims.exp)
             ELSE <<>>))
        signing_input == header \o <<".">> \o claims
    IN  signing_input \o <<".">> \o HmacHexDigest(token.signature[2], signing_input)

\* mutant: the number of minutes is added to the clock as seconds
create_access_token_seconds(sub, expire_minutes) ==
    jwt_encode([sub |-> sub, exp |-> now + expire_minutes], SECRET_KEY)

\* create_access_token(data, expires_delta)
create_access_token(sub, expire_minutes) ==
    jwt_encode([sub |-> sub, exp |-> now + 60 * expire_minutes], SECRET_KEY)

-----------------------------------------------------------------------------
(* Stores and requests *)

MaxUploadBytes == 10 * 1024 * 1024

PDF == "application/pdf"

GoodFile == [filename |-> "test.pdf", ext |-> "pdf", content_type |-> PDF, size |-> 16]
TextFile == [filename |-> "test.txt", ext |-> "txt", content_type |-> "text/plain", size |-> 12]
BigFile == [filename |-> "big.pdf", ext |-> "pdf", content_type |-> PDF, size |-> MaxUploadBytes + 1]

Files == {GoodFile, TextFile, BigFile}

\* an empty temp directory
NoFiles == <<>>

\* download requests the service handles at once
Requests == {1, 2}

\* a request slot that has not received its request yet
Idle == [pc |-> "idle"]

NoStreams == [i \in Requests |-> Idle]

\* no Authorization header
NoToken == [absent |-> TRUE]

\* the header "Authorization: Bearer" with empty credentials: the token ""
EmptyToken == [empty |-> TRUE]

NoHeaders == {}

\* headers={"WWW-Authenticate": "Bearer"}
WWWAuthenticate == {<<"WWW-Authenticate", "Bearer">>}

\* a response without extra headers, with the external calls its handler made
Response(op, status, detail, body, calls) ==
    [op |-> op, status |-> status, detail |-> detail, body |-> body, calls |-> calls,
     headers |-> NoHeaders]

\* a response carrying the given headers
WithHeaders(r, headers) == [r EXCEPT !.headers = headers]

NoResponse == Response("none", 0, "", None, <<>>)

\* mutant: the filter compares the stored selector with a truncated value
UsersBySelector_truncated(id_selector) ==
    {u \in users : u.id_selector = Tail(id_selector)}

\* supabase.table("users").select(...).eq("id_selector", id_selector)
UsersBySelector(id_selector) == {u \in users : u.id_selector = id_selector}

\* mutant: the owner filter is missing
DocsById(doc_id, owner_id) == {d \in docs : d.id = doc_id}

\* supabase.table("documents").select("*").eq("id", doc_id).eq("owner_id", owner_id)
DocsByIdOwner(doc_id, owner_id) ==
    {d \in docs : d.id = doc_id /\ d.owner_id = owner_id}

\* mutant: the owner filter is missing from the listing query
DocsByOwner_all(owner_id) == docs

\* supabase.table("documents").select("*").eq("owner_id", owner_id)
DocsByOwner(owner_id) == {d \in docs : d.owner_id = owner_id}

\* the id the store's serial primary key gives the next row
NextId(table) == Cardinality(table) + 1

\* mutant: the column carries no unique constraint
UniqueViolation_unconstrained(id_selector) == FALSE

\* models.User.id_selector is declared unique: the store refuses a second row
UniqueViolation(id_selector) == UsersBySelector(id_selector) # {}

\* the row register inserts
UserRow(id, name, id_number, salt, created_at) ==
    [id |-> id, name |-> name, id_selector |-> create_selector(id_number),
     id_hash |-> get_password_hash(id_number, salt),
     created_at |-> IsoFormat(created_at)]

\* an HTTPException(401, detail, headers={"WWW-Authenticate": "Bearer"}) raised
\* after the given external calls
Unauthorized(detail, calls) ==
    [ok |-> FALSE, status |-> 401, detail |-> detail, calls |-> calls,
     headers |-> WWWAuthenticate]

\* mutant: a failed validation is reported as a server error
credentials_exception_500(calls) ==
    [ok |-> FALSE, status |-> 500, detail |-> "Internal Server Error", calls |-> calls,
     headers |-> NoHeaders]

\* credentials_exception, raised after the given external calls
credentials_exception(calls) == Unauthorized("Could not validate credentials", calls)

\* oauth2_scheme is an OAuth2PasswordBearer with auto_error left on: a request
\* without a bearer Authorization header is answered 401 before the
\* dependency that asked for the token runs
oauth2_scheme_error == Unauthorized("Not authenticated", <<>>)

\* mutant: a download token that verifies is accepted as the credential of
\* the owner it names
get_current_user_any_token(token, fails) ==
    IF token = NoToken THEN oauth2_scheme_error
    ELSE IF "text" \in DOMAIN token
    THEN LET data == verify_download_token(token.text) IN
         IF data = None \/ {u \in users : u.id = data.owner_id} = {}
         THEN credentials_exception(<<>>)
         ELSE [ok |-> TRUE, calls |-> <<"users.select">>,
               user |-> CHOOSE u \in users : u.id = data.owner_id]
    ELSE
      LET payload == jwt_decode(token, SECRET_KEY) IN
      IF payload = JWTError
      THEN credentials_exception(<<>>)
      ELSE IF "sub" \notin DOMAIN payload
      THEN credentials_exception(<<>>)
      ELSE IF fails = "users.select" \/ UsersBySelector(payload.sub) = {}
      THEN credentials_exception(<<"users.select">>)
      ELSE [ok |-> TRUE, calls |-> <<"users.select">>,
            user |-> CHOOSE u \in UsersBySelector(payload.sub) : TRUE]

\* get_current_user(token); fails: the external call that raises, if any
get_current_user(token, fails) ==
    IF token = NoToken THEN oauth2_scheme_error
    ELSE
      LET payload == jwt_decode(token, SECRET_KEY) IN
      IF payload = JWTError
      THEN credentials_exception(<<>>)
      ELSE IF "sub" \notin DOMAIN payload
      THEN credentials_exception(<<>>)
      ELSE IF fails = "users.select" \/ UsersBySelector(payload.sub) = {}
      THEN credentials_exception(<<"users.select">>)
      ELSE [ok |-> TRUE, calls |-> <<"users.select">>,
            user |-> CHOOSE u \in UsersBySelector(payload.sub) : TRUE]

\* the response of an endpoint whose Depends(get_current_user) raised
AuthFailure(op, auth) ==
    WithHeaders(Response(op, auth.status, auth.detail, None, auth.calls), auth.headers)

-----------------------------------------------------------------------------
(* Endpoints *)

\* the clients keep the first MaxSessions session tokens they are handed
Keep(access_token) ==
    IF Cardinality(sessions) < MaxSessions THEN sessions \cup {access_token}
    ELSE sessions

\* register, up to and including the existence check (main.py 137-151)
register_check(name, id_number, fails) ==
    LET id_selector == create_selector(id_number)
        free == (1..MaxPending) \ {r.rid : r \in pending}
    IN
    IF ~RegisterIn(id_number)
    THEN /\ resp' = Response("register", 422, "Unprocessable Entity", None, <<>>)
         /\ UNCHANGED pending
    ELSE IF fails = "users.select"
    THEN /\ resp' = Response("register", 500, "Internal Server Error", None,
                             <<"users.select">>)
         /\ UNCHANGED pending
    ELSE IF UsersBySelector(id_selector) # {}
    THEN /\ resp' = Response("register", 400, "User already registered", None,
                             <<"users.select">>)
         /\ UNCHANGED pending
    ELSE /\ free # {}
         /\ pending' = pending \cup
               {[rid |-> CHOOSE r \in free : \A q \in free : r <= q,
                 name |-> name, id_number |-> id_number]}
         /\ UNCHANGED resp

\* a register request with a name out of names arrives
RegisterCheckFrom(names) ==
    /\ \E name \in names, id_number \in IdNumbers, fails \in {"none", "users.select"} :
           register_check(name, id_number, fails)
    /\ UNCHANGED <<now, settings, users, docs, sessions, links, wire, minted,
                 tmp, streams>>

RegisterCheck == RegisterCheckFrom(Names)

\* register, from the hash to the response (main.py 153-183)
register_insert(r, salt, fails) ==
    LET calls == <<"users.select", "users.insert">>
        created_user == UserRow(NextId(users), r.name, r.id_number, salt, now)
        access_token == create_access_token(created_user.id_selector,
                                            settings.access_token_expire_minutes)
    IN
    /\ pending' = pending \ {r}
    /\ IF fails = "users.insert" \/ UniqueViolation(created_user.id_selector)
       THEN /\ resp' = Response("register", 500, "Internal Server Error", None, calls)
            /\ UNCHANGED <<users, sessions>>
       ELSE /\ users' = users \cup {created_user}
            /\ sessions' = Keep(access_token)
            /\ resp' = Response("register", 200, "OK",
                                [access_token |-> access_token, token_type |-> "bearer"],
                                calls)

RegisterInsert ==
    /\ \E r \in pending, salt \in Salts, fails \in {"none", "users.insert"} :
           register_insert(r, salt, fails)
    /\ UNCHANGED <<now, settings, docs, links, wire, minted,
                 tmp, streams>>

\* mutant: a hash mismatch is reported with its own message
login_result_distinct_detail(id_number, fails) ==
    LET id_selector == create_selector(id_number)
        rows == UsersBySelector(id_selector)
        calls == <<"users.select">>
    IN
    IF fails = "users.select"
    THEN Response("login", 500, "Internal Server Error", None, calls)
    ELSE IF rows = {}
    THEN WithHeaders(Response("login", 401, "Incorrect ID number", None, calls),
                     WWWAuthenticate)
    ELSE LET user_data == CHOOSE u \in rows : TRUE IN
         IF ~verify_password(id_number, user_data.id_hash)
         THEN WithHeaders(Response("login", 401, "ID number does not match", None, calls),
                          WWWAuthenticate)
         ELSE Response("login", 200, "OK",
                  [access_token |-> create_access_token(user_data.id_selector,
                                        settings.access_token_expire_minutes),
                   token_type |-> "bearer"], calls)

\* mutant: the token is issued for the computed selector without looking at
\* the row
login_result_unverified(id_number, fails) ==
    IF fails = "users.select"
    THEN Response("login", 500, "Internal Server Error", None, <<"users.select">>)
    ELSE Response("login", 200, "OK",
             [access_token |-> create_access_token(create_selector(id_number),
                                   settings.access_token_expire_minutes),
              token_type |-> "bearer"], <<"users.select">>)

\* what login answers (main.py 186-211)
login_result(id_number, fails) ==
    LET id_selector == create_selector(id_number)
        rows == UsersBySelector(id_selector)
        calls == <<"users.select">>
    IN
    IF fails = "users.select"
    THEN Response("login", 500, "Internal Server Error", None, calls)
    ELSE IF rows = {}
    THEN WithHeaders(Response("login", 401, "Incorrect ID number", None, calls),
                     WWWAuthenticate)
    ELSE LET user_data == CHOOSE u \in rows : TRUE IN
         IF ~verify_password(id_number, user_data.id_hash)
         THEN WithHeaders(Response("login", 401, "Incorrect ID number", None, calls),
                          WWWAuthenticate)
         ELSE Response("login", 200, "OK",
                  [access_token |-> create_access_token(user_data.id_selector,
                                        settings.access_token_expire_minutes),
                   token_type |-> "bearer"], calls)

\* mutant: a successful login stores a fresh hash of the identifier in the row
login_rehash(id_number, fails) ==
    LET r == login_result(id_number, fails)
        rows == UsersBySelector(create_selector(id_number))
    IN
    /\ resp' = r
    /\ sessions' = IF r.status = 200 THEN Keep(r.body.access_token) ELSE sessions
    /\ users' = IF r.status = 200
                THEN (users \ rows) \cup
                     {[u EXCEPT !.id_hash = get_password_hash(id_number, u.id_hash.salt + 1)]
                          : u \in rows}
                ELSE users

\* login: the response, and the session token the client keeps; the handler
\* calls nothing but select on the users table
login(id_number, fails) ==
    LET r == login_result(id_number, fails) IN
    /\ resp' = r
    /\ sessions' = IF r.status = 200 THEN Keep(r.body.access_token) ELSE sessions
    /\ users' = users

Login ==
    /\ \E id_number \in IdNumbers, fails \in {"none", "users.select"} :
           login(id_number, fails)
    /\ UNCHANGED <<now, settings, docs, pending, links, wire, minted,
                 tmp, streams>>

\* session tokens a client can present: those handed out, one signed with a
\* key that is not the server's, one signed by the server without a subject
\* claim, a string that is no JWT, the token under test, or none at all
ForgedSessions ==
    {jwt_encode([sub |-> u.id_selector, exp |-> MaxTime], ATTACKER_KEY) :
        u \in {v \in users : v.id = 1}}

SubjectlessSessions == {jwt_encode([exp |-> MaxTime], SECRET_KEY)}

\* what jwt.decode makes of the credentials text of an Authorization header:
\* with fewer than three "."-segments it is no JWS ("Not enough segments"),
\* otherwise it is the token whose compact form it is, if there is one
bearer(text) ==
    LET known == {t \in sessions \cup ForgedSessions \cup SubjectlessSessions :
                     jwt_compact(t) = text}
    IN  IF Len(SplitOn(text, ".")) < 3 \/ known = {} THEN [text |-> text]
        ELSE CHOOSE t \in known : TRUE

MalformedSessions ==
    {[text |-> <<"n", "o", "t", "-", "a", "-", "j", "w", "t">>], EmptyToken}

HarnessSessions == IF minted = None THEN {} ELSE {wire}

PresentedSessions ==
    sessions \cup ForgedSessions \cup SubjectlessSessions \cup MalformedSessions
        \cup HarnessSessions \cup {NoToken}
        \cup {bearer(l.token) : l \in links}

\* what upload_document answers (main.py 214-281)
upload_result(token, file, fails) ==
    LET auth == get_current_user(token, fails)
        calls == auth.calls \o <<"storage.upload">>
    IN
    IF ~auth.ok THEN AuthFailure("upload", auth)
    ELSE IF file.content_type # PDF \/ file.ext # "pdf"
    THEN Response("upload", 400, "Only PDF files are allowed", None, auth.calls)
    ELSE IF file.size > MaxUploadBytes
    THEN Response("upload", 413, "File too large (max 10MB)", None, auth.calls)
    ELSE IF fails = "storage.upload"
    THEN Response("upload", 500, "Could not save file", None, calls)
    ELSE IF fails = "documents.insert"
    THEN Response("upload", 500, "Internal Server Error", None,
                  calls \o <<"documents.insert">>)
    ELSE Response("upload", 200, "OK",
                  [id |-> NextId(docs), filename |-> file.filename,
                   owner_id |-> auth.user.id],
                  calls \o <<"documents.insert">>)

upload_document(token, file, fails) ==
    LET r == upload_result(token, file, fails) IN
    /\ resp' = r
    /\ IF r.status = 200
       THEN /\ Cardinality(docs) < MaxDocs
            /\ docs' = docs \cup {r.body}
       ELSE UNCHANGED docs

UploadDocument ==
    /\ \E token \in PresentedSessions, file \in Files,
          fails \in {"none", "users.select", "storage.upload", "documents.insert"} :
           upload_document(token, file, fails)
    /\ UNCHANGED <<now, settings, users, pending, sessions, links, wire, minted,
                 tmp, streams>>

\* what list_documents answers (main.py 284-292)
list_result(token, fails) ==
    LET auth == get_current_user(token, fails)
        calls == auth.calls \o <<"documents.select">>
    IN
    IF ~auth.ok THEN AuthFailure("list", auth)
    ELSE IF fails = "documents.select"
    THEN Response("list", 500, "Internal Server Error", None, calls)
    ELSE Response("list", 200, "OK", DocsByOwner(auth.user.id), calls)

list_documents(token, fails) == resp' = list_result(token, fails)

ListDocuments ==
    /\ \E token \in PresentedSessions,
          fails \in {"none", "users.select", "documents.select"} :
           list_documents(token, fails)
    /\ UNCHANGED <<now, settings, users, docs, pending, sessions, links, wire, minted,
                 tmp, streams>>

\* mutant: a documents query that raises is taken for an empty answer
request_token_result_swallow(token, doc_id, fails) ==
    LET auth == get_current_user(token, fails)
        calls == auth.calls \o <<"documents.select">>
    IN
    IF ~auth.ok THEN AuthFailure("request_token", auth)
    ELSE IF fails = "documents.select" \/ DocsByIdOwner(doc_id, auth.user.id) = {}
    THEN Response("request_token", 404, "Document not found", None, calls)
    ELSE LET doc == CHOOSE d \in DocsByIdOwner(doc_id, auth.user.id) : TRUE IN
         Response("request_token", 200, "OK",
                  [token |-> make_download_token(doc.id, auth.user.id),
                   expires_in |-> settings.download_token_ttl_seconds], calls)

\* what request_download_token answers (main.py 340-359)
request_token_result(token, doc_id, fails) ==
    LET auth == get_current_user(token, fails)
        calls == auth.calls \o <<"documents.select">>
    IN
    IF ~auth.ok THEN AuthFailure("request_token", auth)
    ELSE IF fails = "documents.select"
    THEN Response("request_token", 500, "Internal Server Error", None, calls)
    ELSE IF DocsByIdOwner(doc_id, auth.user.id) = {}
    THEN Response("request_token", 404, "Document not found", None, calls)
    ELSE LET doc == CHOOSE d \in DocsByIdOwner(doc_id, auth.user.id) : TRUE IN
         Response("request_token", 200, "OK",
                  [token |-> make_download_token(doc.id, auth.user.id),
                   expires_in |-> settings.download_token_ttl_seconds], calls)

\* the record kept of a token that was handed out: for which request, to whom,
\* and when
Link(token, doc_id, caller) ==
    [token |-> token, doc_id |-> doc_id, caller |-> caller, at |-> now]

request_download_token(token, doc_id, fails) ==
    LET r == request_token_result(token, doc_id, fails)
        link == Link(r.body.token, doc_id, get_current_user(token, fails).user.id)
    IN
    /\ resp' = r
    /\ IF r.status = 200
       THEN /\ link \in links \/ Cardinality(links) < MaxLinks
            /\ links' = links \cup {link}
       ELSE UNCHANGED links

RequestDownloadToken ==
    /\ \E token \in PresentedSessions, doc_id \in 1..(MaxDocs + 1),
          fails \in {"none", "users.select", "documents.select"} :
           request_download_token(token, doc_id, fails)
    /\ UNCHANGED <<now, settings, users, docs, pending, sessions, wire, minted,
                 tmp, streams>>

\* headers={"Content-Disposition": f'attachment; filename="{doc.filename}"'}
ContentDisposition(filename) == {<<"Content-Disposition", filename>>}

\* mutant: a token with the wrong number of fields is refused with a message
\* of its own
download_result_reason(token, fails) ==
    LET data == verify_download_token(token)
        calls == <<"documents.select", "storage.download">>
    IN
    IF data = None
    THEN Response("download", 403,
                  IF WrongFieldCount(Split(token)) THEN "Malformed token"
                  ELSE "Invalid or expired token", None, <<>>)
    ELSE IF fails = "documents.select"
    THEN Response("download", 500, "Internal Server Error", None,
                  <<"documents.select">>)
    ELSE IF DocsByIdOwner(data.doc_id, data.owner_id) = {}
    THEN Response("download", 404, "Document not found", None,
                  <<"documents.select">>)
    ELSE IF fails = "storage.download"
    THEN Response("download", 404, "File not found on server", None, calls)
    ELSE LET doc == CHOOSE d \in DocsByIdOwner(data.doc_id, data.owner_id) : TRUE IN
         WithHeaders(Response("download", 200, "OK", doc, calls),
                     ContentDisposition(doc.filename))

\* mutant: a download is served only while its owner holds a live session
download_result_with_session(token, fails) ==
    LET data == verify_download_token(token)
        calls == <<"documents.select", "storage.download">>
    IN
    IF data = None
    THEN Response("download", 403, "Invalid or expired token", None, <<>>)
    ELSE IF ~\E t \in sessions : /\ get_current_user(t, "none").ok
                                 /\ get_current_user(t, "none").user.id = data.owner_id
    THEN AuthFailure("download", credentials_exception(<<"users.select">>))
    ELSE IF fails = "documents.select"
    THEN Response("download", 500, "Internal Server Error", None,
                  <<"documents.select">>)
    ELSE IF DocsByIdOwner(data.doc_id, data.owner_id) = {}
    THEN Response("download", 404, "Document not found", None,
                  <<"documents.select">>)
    ELSE IF fails = "storage.download"
    THEN Response("download", 404, "File not found on server", None, calls)
    ELSE LET doc == CHOOSE d \in DocsByIdOwner(data.doc_id, data.owner_id) : TRUE IN
         WithHeaders(Response("download", 200, "OK", doc, calls),
                     ContentDisposition(doc.filename))

\* what download_document answers (main.py 362-409)
download_result(token, fails) ==
    LET data == verify_download_token(token)
        calls == <<"documents.select", "storage.download">>
    IN
    IF data = None
    THEN Response("download", 403, "Invalid or expired token", None, <<>>)
    ELSE IF fails = "documents.select"
    THEN Response("download", 500, "Internal Server Error", None,
                  <<"documents.select">>)
    ELSE IF DocsByIdOwner(data.doc_id, data.owner_id) = {}
    THEN Response("download", 404, "Document not found", None,
                  <<"documents.select">>)
    ELSE IF fails = "storage.download"
    THEN Response("download", 404, "File not found on server", None, calls)
    ELSE LET doc == CHOOSE d \in DocsByIdOwner(data.doc_id, data.owner_id) : TRUE IN
         WithHeaders(Response("download", 200, "OK", doc, calls),
                     ContentDisposition(doc.filename))

\* mutant: a token is refused once a download has been served
download_document_once(token, fails) ==
    resp' = IF resp.op = "download" /\ resp.status = 200
            THEN Response("download", 403, "Invalid or expired token", None, <<>>)
            ELSE download_result(token, fails)

download_document(token, fails) == resp' = download_result(token, fails)

-----------------------------------------------------------------------------
(* What a client can present as a download token *)

\* token with its k-th "|"-field replaced by f
ReplaceField(token, k, f) == Join([Split(token) EXCEPT ![k] = f])

\* token with its i-th character replaced by c
ReplaceChar(token, i, c) == [token EXCEPT ![i] = c]

\* a token for the fields d, o, e signed with key
SignedToken(key, d, o, e) ==
    LET payload == d \o <<"|">> \o o \o <<"|">> \o e IN
    payload \o <<"|">> \o HmacHexDigest(key, payload)

HeldTokens == {l.token : l \in links}

\* a held token pointed at another document, owner or expiry, signature kept
RetargetedTokens ==
    ({ReplaceField(t, 1, IntToStr(v)) : t \in HeldTokens, v \in 1..MaxDocs}
     \cup {ReplaceField(t, 2, IntToStr(u.id)) : t \in HeldTokens, u \in users}
     \cup {ReplaceField(t, 3, IntToStr(MaxTime + 1)) : t \in HeldTokens})
    \ HeldTokens

\* tokens signed with a key that is not the download secret
ForgedTokens ==
    {SignedToken(ATTACKER_KEY, IntToStr(d.id), IntToStr(d.owner_id),
                 IntToStr(MaxTime + 1)) : d \in docs}

MalformedTokens ==
    {<<>>, <<"x">>, <<"1", "|", "1", "|", "9">>}
    \cup {t \o <<"|", "0">> : t \in HeldTokens}

PresentedTokens ==
    HeldTokens \cup RetargetedTokens \cup ForgedTokens \cup MalformedTokens
        \cup {jwt_compact(t) : t \in sessions}

DownloadFails == {"none", "documents.select", "storage.download"}

DownloadDocument ==
    /\ \E token \in PresentedTokens, fails \in DownloadFails :
           download_document(token, fails)
    /\ UNCHANGED <<now, settings, users, docs, pending, sessions, links, wire, minted,
                 tmp, streams>>

\* a second passes
Tick ==
    /\ now < MaxTime
    /\ now' = now + 1
    /\ UNCHANGED <<settings, users, docs, pending, sessions, links, wire, minted, resp,
                 tmp, streams>>

-----------------------------------------------------------------------------
(* The identity service, from empty stores *)

Settings ==
    [download_token_ttl_seconds : TtlChoices,
     access_token_expire_minutes : {AccessTokenExpireMinutes}]

Init ==
    /\ now = ClockStart
    /\ settings \in Settings
    /\ users = {}
    /\ docs = {}
    /\ pending = {}
    /\ sessions = {}
    /\ links = {}
    /\ wire = <<>>
    /\ minted = None
    /\ resp = NoResponse
    /\ tmp = NoFiles
    /\ streams = NoStreams

Next ==
    \/ RegisterCheck
    \/ RegisterInsert
    \/ Login
    \/ Tick

Spec == Init /\ [][Next]_vars

-----------------------------------------------------------------------------
(* Registration alone, from empty stores, by clients that may also give the *)
(* text of an identifier as their name                                       *)

\* RegisterIn.name is any string
SubmittedNames == Names \cup {ID_A}

RegisterNamed == RegisterCheckFrom(SubmittedNames)

NextRegister ==
    \/ RegisterNamed
    \/ RegisterInsert
    \/ Tick

SpecRegister == Init /\ [][NextRegister]_vars

-----------------------------------------------------------------------------
(* The document service, with two users registered and logged in: the first *)
(* at process start, the second long enough ago for the session to expire    *)
(* one second after it                                                       *)

SeedUsers ==
    {UserRow(1, MOCK_USER_NAME, ID_A, 1, ClockStart),
     UserRow(2, MOCK_USER_NAME, ID_B, 1, ClockStart)}

\* the session token of the row u, handed out so that it expires at exp
SessionExpiringAt(u, exp) ==
    jwt_encode([sub |-> u.id_selector, exp |-> exp], SECRET_KEY)

SeedSessions ==
    {IF u.id = 1
     THEN create_access_token(u.id_selector, settings.access_token_expire_minutes)
     ELSE SessionExpiringAt(u, ClockStart + 1) : u \in SeedUsers}

InitDocs ==
    /\ now = ClockStart
    /\ settings \in Settings
    /\ users = SeedUsers
    /\ docs = {}
    /\ pending = {}
    /\ sessions = SeedSessions
    /\ links = {}
    /\ wire = <<>>
    /\ minted = None
    /\ resp = NoResponse
    /\ tmp = NoFiles
    /\ streams = NoStreams

NextDocs ==
    \/ UploadDocument
    \/ ListDocuments
    \/ RequestDownloadToken
    \/ DownloadDocument
    \/ Tick

SpecDocs == InitDocs /\ [][NextDocs]_vars

-----------------------------------------------------------------------------
(* Handing out download tokens, by a service started with a short TTL or     *)
(* with the default one                                                      *)

SettingsIssue ==
    [download_token_ttl_seconds : TtlChoices \cup {DownloadTokenTtlSeconds},
     access_token_expire_minutes : {AccessTokenExpireMinutes}]

InitIssue ==
    /\ now = ClockStart
    /\ settings \in SettingsIssue
    /\ users = SeedUsers
    /\ docs = {}
    /\ pending = {}
    /\ sessions = SeedSessions
    /\ links = {}
    /\ wire = <<>>
    /\ minted = None
    /\ resp = NoResponse
    /\ tmp = NoFiles
    /\ streams = NoStreams

NextIssue ==
    \/ UploadDocument
    \/ RequestDownloadToken
    \/ Tick

SpecIssue == InitIssue /\ [][NextIssue]_vars

-----------------------------------------------------------------------------
(* Session validation: create_access_token called directly, as in            *)
(* test_main.py's auth_headers, with one user registered and registrations   *)
(* going on, and the endpoints that depend on the session token              *)

\* what a dependency hands the endpoint: the user (or None), and the calls made
Identity(user, calls) == [ok |-> TRUE, user |-> user, calls |-> calls]

\* get_optional_current_user(token), behind Depends(oauth2_scheme)
get_optional_current_user(token, fails) ==
    IF token = NoToken THEN oauth2_scheme_error
    ELSE IF token = EmptyToken THEN Identity(None, <<>>)
    ELSE
      LET payload == jwt_decode(token, SECRET_KEY) IN
      IF payload = JWTError THEN Identity(None, <<>>)
      ELSE IF "sub" \notin DOMAIN payload THEN Identity(None, <<>>)
      ELSE IF fails = "users.select" \/ UsersBySelector(payload.sub) = {}
      THEN Identity(None, <<"users.select">>)
      ELSE Identity(CHOOSE u \in UsersBySelector(payload.sub) : TRUE,
                    <<"users.select">>)

\* what chat_endpoint answers (main.py 439-466); the body records the
\* personalization put into the prompt
chat_result(token, fails) ==
    LET current_user == get_optional_current_user(token, fails)
        calls == current_user.calls \o <<"gemini">>
    IN
    IF ~current_user.ok THEN AuthFailure("chat", current_user)
    ELSE IF fails = "gemini"
    THEN Response("chat", 500, "AI service unavailable", None, calls)
    ELSE Response("chat", 200, "OK",
                  [user_context |-> IF current_user.user = None THEN <<>>
                                    ELSE current_user.user.name],
                  calls)

chat_endpoint(token, fails) == resp' = chat_result(token, fails)

ChatFails == {"none", "users.select", "gemini"}

ChatEndpoint ==
    /\ \E token \in PresentedSessions, fails \in ChatFails : chat_endpoint(token, fails)
    /\ UNCHANGED <<now, settings, users, docs, pending, sessions, links, wire, minted,
                 tmp, streams>>

\* selectors a session token may be issued for
Selectors == {create_selector(ID_A), create_selector(ID_B)}

\* create_access_token called for the selector sub
SessionMint(sub) ==
    /\ wire' = create_access_token(sub, settings.access_token_expire_minutes)
    /\ minted' = [sub |-> sub, at |-> now]
    /\ resp' = NoResponse
    /\ UNCHANGED <<now, settings, users, docs, pending, sessions, links,
                 tmp, streams>>

\* a minute passes
TickMinute ==
    /\ now + 60 <= MaxTime + 60 * MaxMinutes
    /\ now' = now + 60
    /\ UNCHANGED <<settings, users, docs, pending, sessions, links, wire, minted, resp,
                 tmp, streams>>

\* a row stored under selector(ID_A) whose hash is that of another identifier
StaleRow ==
    [UserRow(1, MOCK_USER_NAME, ID_A, 1, ClockStart)
         EXCEPT !.id_hash = get_password_hash(ID_B, 1)]

\* a users table as the store may hold it: both users, one user, one user
\* whose hash does not verify, or none
UserSamples == {SeedUsers, {UserRow(1, MOCK_USER_NAME, ID_A, 1, ClockStart)}, {StaleRow}, {}}

SettingsAuth ==
    [download_token_ttl_seconds : {DownloadTokenTtlSeconds},
     access_token_expire_minutes : ExpireMinuteChoices]

InitAuth ==
    /\ now = ClockStart
    /\ settings \in SettingsAuth
    /\ users = {UserRow(1, MOCK_USER_NAME, ID_A, 1, ClockStart)}
    /\ docs = {}
    /\ pending = {}
    /\ sessions = {}
    /\ links = {}
    /\ wire = NoToken
    /\ minted = None
    /\ resp = NoResponse
    /\ tmp = NoFiles
    /\ streams = NoStreams

NextAuth ==
    \/ \E sub \in Selectors : SessionMint(sub)
    \/ RegisterCheck
    \/ RegisterInsert
    \/ ListDocuments
    \/ ChatEndpoint
    \/ Tick
    \/ TickMinute

SpecAuth == InitAuth /\ [][NextAuth]_vars

-----------------------------------------------------------------------------
(* login over a users table as the store may hold it *)

InitLogin ==
    /\ now = ClockStart
    /\ settings \in SettingsAuth
    /\ users \in UserSamples
    /\ docs = {}
    /\ pending = {}
    /\ sessions = {}
    /\ links = {}
    /\ wire = NoToken
    /\ minted = None
    /\ resp = NoResponse
    /\ tmp = NoFiles
    /\ streams = NoStreams

NextLogin ==
    \/ Login
    \/ Tick

SpecLogin == InitLogin /\ [][NextLogin]_vars

-----------------------------------------------------------------------------
(* The codec on its own: make_download_token called directly, as in          *)
(* test_download_document_success, the token string edited in transit, and   *)
(* verify_download_token / download_document applied to the result           *)

\* ids handed to make_download_token
CodecIds == {0, 1, MaxId}

\* replacement characters: two digits, two hex letters, the separator, a
\* character that is neither
FlipChars == {"0", "1", "a", "f", "|", "x"}

\* field contents a client may put in place of a field
FieldSamples ==
    {<<"1">>, <<>>, <<"x">>, <<"-", "1">>, <<"1", "x">>, IntToStr(MaxTime + 1)}

\* token strings that were never made by make_download_token: any sample
\* fields, signed with the download secret or another key, and strings with
\* three or five fields
RawTokens ==
    {SignedToken(key, d, o, e) :
        key \in {DOWNLOAD_SECRET, ATTACKER_KEY},
        d \in FieldSamples, o \in FieldSamples, e \in FieldSamples}
    \cup {<<>>, <<"x">>, <<"1", "|", "1", "|", "9">>,
          SignedToken(DOWNLOAD_SECRET, <<"1">>, <<"1">>, <<"9", "|", "9">>)}

\* the first character of the signature field of a four-field token
SignatureStart(token) ==
    LET parts == Split(token) IN
    Len(parts[1]) + Len(parts[2]) + Len(parts[3]) + 4

Unedited == minted # None /\ minted.edit = "none"

CodecMint(doc_id, owner_id) ==
    /\ wire' = make_download_token(doc_id, owner_id)
    /\ minted' = [doc_id |-> doc_id, owner_id |-> owner_id, at |-> now, edit |-> "none"]
    /\ resp' = NoResponse
    /\ UNCHANGED <<now, settings, users, docs, pending, sessions, links,
                 tmp, streams>>

\* one character of the token is replaced in transit
CodecFlipChar(i, c) ==
    /\ Unedited
    /\ wire[i] # c
    /\ wire' = ReplaceChar(wire, i, c)
    /\ minted' = [minted EXCEPT !.edit =
                     IF i >= SignatureStart(wire) THEN "signature" ELSE "payload"]
    /\ resp' = NoResponse
    /\ UNCHANGED <<now, settings, users, docs, pending, sessions, links,
                 tmp, streams>>

\* one payload field of the token is replaced in transit, signature kept
CodecReplaceField(k, f) ==
    /\ Unedited
    /\ Split(wire)[k] # f
    /\ wire' = ReplaceField(wire, k, f)
    /\ minted' = [minted EXCEPT !.edit = "payload"]
    /\ resp' = NoResponse
    /\ UNCHANGED <<now, settings, users, docs, pending, sessions, links,
                 tmp, streams>>

\* a field is cut off the token, or one is appended
CodecChangeArity(cut) ==
    /\ Unedited
    /\ wire' = IF cut THEN SubSeq(wire, 1, SignatureStart(wire) - 2)
               ELSE wire \o <<"|", "0">>
    /\ minted' = [minted EXCEPT !.edit = "arity"]
    /\ resp' = NoResponse
    /\ UNCHANGED <<now, settings, users, docs, pending, sessions, links,
                 tmp, streams>>

CodecEdit ==
    \/ \E i \in 1..Len(wire), c \in FlipChars : CodecFlipChar(i, c)
    \/ \E k \in 1..3, f \in FieldSamples : CodecReplaceField(k, f)
    \/ \E cut \in BOOLEAN : CodecChangeArity(cut)

CodecVerify ==
    /\ resp' = Response("verify", 0, "", verify_download_token(wire), <<>>)
    /\ UNCHANGED <<now, settings, users, docs, pending, sessions, links, wire, minted,
                 tmp, streams>>

CodecDownload ==
    /\ \E fails \in DownloadFails : download_document(wire, fails)
    /\ UNCHANGED <<now, settings, users, docs, pending, sessions, links, wire, minted,
                 tmp, streams>>

\* a documents table as the store may hold it: document 1 of owner 1, the
\* same document reported with owner 2, or no such document
StoreSamples ==
    {{[id |-> 1, filename |-> "test.pdf", owner_id |-> 1]},
     {[id |-> 1, filename |-> "test.pdf", owner_id |-> 2]},
     {[id |-> MaxId, filename |-> "test.pdf", owner_id |-> 1]},
     {}}

InitCodec ==
    /\ now = ClockStart
    /\ settings \in Settings
    /\ users = SeedUsers
    /\ docs = {[id |-> 1, filename |-> "test.pdf", owner_id |-> 1]}
    /\ pending = {}
    /\ sessions = {}
    /\ links = {}
    /\ wire \in RawTokens
    /\ minted = None
    /\ resp = NoResponse
    /\ tmp = NoFiles
    /\ streams = NoStreams

NextCodec ==
    \/ \E doc_id \in CodecIds, owner_id \in CodecIds : CodecMint(doc_id, owner_id)
    \/ CodecEdit
    \/ CodecVerify
    \/ CodecDownload
    \/ Tick

SpecCodec == InitCodec /\ [][NextCodec]_vars

InitRedeem ==
    /\ now = ClockStart
    /\ settings \in Settings
    /\ users = SeedUsers
    /\ docs \in StoreSamples
    /\ pending = {}
    /\ sessions = {}
    /\ links = {}
    /\ wire = <<>>
    /\ minted = None
    /\ resp = NoResponse
    /\ tmp = NoFiles
    /\ streams = NoStreams

NextRedeem ==
    \/ \E doc_id \in CodecIds, owner_id \in CodecIds : CodecMint(doc_id, owner_id)
    \/ CodecDownload
    \/ Tick

SpecRedeem == InitRedeem /\ [][NextRedeem]_vars

-----------------------------------------------------------------------------
(* Claims on the codec (SpecCodec, SpecRedeem) *)

TokenTtl == settings.download_token_ttl_seconds

\* C2: round trip. A token made by make_download_token(d, o) and not edited,
\* verified in the second it was made, yields exactly {doc_id: d, owner_id: o}.
C2_RoundTrip ==
    (Unedited /\ now = minted.at) =>
        verify_download_token(wire) =
            [doc_id |-> minted.doc_id, owner_id |-> minted.owner_id]

C2_Witness ==
    /\ Unedited
    /\ now = minted.at
    /\ minted.doc_id = MaxId
    /\ minted.owner_id = 0
    /\ resp.op = "verify"
    /\ resp.body = [doc_id |-> MaxId, owner_id |-> 0]

\* C4: tamper sensitivity. A made token of which one signature character, or
\* any part of the payload, was changed without re-signing does not verify,
\* expired or not.
C4_TamperRejected ==
    (minted # None /\ minted.edit \in {"signature", "payload"}) =>
        verify_download_token(wire) = None

C4_Witness ==
    /\ minted # None
    /\ minted.edit = "signature"
    /\ now <= minted.at + TokenTtl
    /\ Len(Split(wire)) = 4
    /\ resp.op = "verify"
    /\ resp.body = None

\* a token string without exactly four fields, or with a doc_id, owner_id or
\* expiry field that int() does not accept
Malformed(token) ==
    \/ Len(Split(token)) # 4
    \/ \E k \in 1..3 : ~IsNumeric(Split(token)[k])

\* C7: malformed-field rejection. verify_download_token returns None (and
\* nothing else: no exception leaves it) for every malformed token string,
\* and download_document answers it with 403 "Invalid or expired token"
\* without having called any store, whichever store call would have failed.
C7_MalformedRejected ==
    Malformed(wire) =>
        /\ verify_download_token(wire) = None
        /\ \A fails \in DownloadFails :
               download_result(wire, fails) =
                   Response("download", 403, "Invalid or expired token", None, <<>>)

\* a validly signed token with a non-numeric owner_id was answered with 403
C7_Witness ==
    /\ Len(Split(wire)) = 4
    /\ IsNumeric(Split(wire)[1])
    /\ ~IsNumeric(Split(wire)[2])
    /\ wire = SignedToken(DOWNLOAD_SECRET, Split(wire)[1], Split(wire)[2], Split(wire)[3])
    /\ resp.op = "download"
    /\ resp.status = 403

\* C5: redemption re-checks ownership. download_document serves a validly
\* signed, unexpired token for (d, o) only if the documents table holds d with
\* owner o, and then serves that row; otherwise no file is returned.
C5_OwnershipRechecked ==
    (Unedited /\ verify_download_token(wire) # None) =>
        \A fails \in DownloadFails :
            LET r == download_result(wire, fails)
                held == {d \in docs : d.id = minted.doc_id
                                        /\ d.owner_id = minted.owner_id}
            IN  /\ r.status = 200 => (held # {} /\ r.body \in held)
                /\ held = {} => (r.status # 200 /\ r.body = None)

\* the store reports owner 2 for the document of a valid token for (1, 1)
C5_Witness ==
    /\ Unedited
    /\ minted.doc_id = 1
    /\ minted.owner_id = 1
    /\ verify_download_token(wire) # None
    /\ \E d \in docs : d.id = 1 /\ d.owner_id = 2
    /\ resp.op = "download"
    /\ resp.status = 404
    /\ resp.detail = "Document not found"

\* why validation refuses the token string: the number of fields, the
\* signature, the expiry, or a field int() does not accept
RejectReason(token) ==
    LET parts == Split(token) IN
    IF Len(parts) # 4 THEN "fields"
    ELSE IF token # SignedToken(DOWNLOAD_SECRET, parts[1], parts[2], parts[3])
    THEN "signature"
    ELSE IF \E k \in 1..3 : ~IsNumeric(parts[k]) THEN
        IF IsNumeric(parts[3]) /\ ParseInt(parts[3]) < now THEN "expired"
        ELSE "numeric"
    ELSE IF ParseInt(parts[3]) < now THEN "expired"
    ELSE "accepted"

\* one token string for each reason
ReasonSamples ==
    {<<"x">>,
     SignedToken(ATTACKER_KEY, <<"1">>, <<"1">>, IntToStr(MaxTime + 1)),
     SignedToken(DOWNLOAD_SECRET, <<"1">>, <<"1">>, <<"1">>),
     SignedToken(DOWNLOAD_SECRET, <<"1">>, <<"x">>, IntToStr(MaxTime + 1))}

\* C20: uniform rejection. Whatever the reason validation refuses a token for
\* (field count, signature, expiry, non-numeric field), verify_download_token
\* returns the same value None and download_document the same response, 403
\* "Invalid or expired token", as for a token refused for any other reason.
C20_UniformRejection ==
    LET refused == Response("download", 403, "Invalid or expired token",
                            None, <<>>)
    IN
    RejectReason(wire) # "accepted" =>
        /\ verify_download_token(wire) = None
        /\ \A fails \in DownloadFails : download_result(wire, fails) = refused
        /\ \A t \in ReasonSamples : download_result(t, "none") = refused

\* a made token has expired and was refused, while tokens refused for each of
\* the other reasons exist
C20_Witness ==
    /\ Unedited
    /\ RejectReason(wire) = "expired"
    /\ {RejectReason(t) : t \in ReasonSamples} =
           {"fields", "signature", "expired", "numeric"}
    /\ resp.op = "download"
    /\ resp.status = 403

-----------------------------------------------------------------------------
(* All operations of the service, with one user registered and logged in,   *)
(* within one second of the clock                                            *)

InitStore ==
    /\ now = ClockStart
    /\ settings \in Settings
    /\ users = {UserRow(1, MOCK_USER_NAME, ID_A, 1, ClockStart)}
    /\ docs = {}
    /\ pending = {}
    /\ sessions = {create_access_token(create_selector(ID_A),
                                       settings.access_token_expire_minutes)}
    /\ links = {}
    /\ wire = <<>>
    /\ minted = None
    /\ resp = NoResponse
    /\ tmp = NoFiles
    /\ streams = NoStreams

NextStore ==
    \/ RegisterCheck
    \/ RegisterInsert
    \/ Login
    \/ UploadDocument
    \/ ListDocuments
    \/ RequestDownloadToken
    \/ DownloadDocument
    \/ ChatEndpoint

SpecStore == InitStore /\ [][NextStore]_vars

-----------------------------------------------------------------------------
(* download_document step by step (main.py 365-409), for requests handled at *)
(* once: each runs in a worker thread, and iterfile runs after the handler   *)
(* has returned its StreamingResponse                                        *)

\* f"download_{doc.id}_{int(time.time())}.pdf" in the temp directory
TempFilePath(doc_id, clock) ==
    <<"download_">> \o IntToStr(doc_id) \o <<"_">> \o IntToStr(clock) \o <<".pdf">>

\* what supabase.storage.from_("documents").download(doc.filepath) returns
FileBytes(doc_id) == <<"%PDF", doc_id, "%%EOF">>

\* the request arrives: the token is verified, the document row fetched, the
\* temp file path chosen and the bytes fetched from storage (365-385); a
\* request that is refused ends here
download_begin(i, token) ==
    LET r == download_result(token, "none") IN
    /\ streams[i] = Idle
    /\ resp' = IF r.status = 200 THEN resp ELSE r
    /\ streams' = [streams EXCEPT ![i] =
           IF r.status = 200
           THEN [pc |-> "open", doc_id |-> r.body.id,
                 path |-> TempFilePath(r.body.id, now), sent |-> <<>>]
           ELSE [pc |-> "done", doc_id |-> 0, path |-> <<>>, sent |-> <<>>]]
    /\ UNCHANGED tmp

\* open(temp_file_path, "wb") creates the file, or truncates the one there (387)
temp_file_open(i) ==
    /\ streams[i].pc = "open"
    /\ tmp' = [p \in DOMAIN tmp \cup {streams[i].path} |->
                   IF p = streams[i].path THEN <<>> ELSE tmp[p]]
    /\ streams' = [streams EXCEPT ![i].pc = "write"]
    /\ UNCHANGED resp

\* f.write(file_bytes) and the close of the with block (388); bytes written
\* to a file that was unlinked in between are lost with it
temp_file_write(i) ==
    /\ streams[i].pc = "write"
    /\ tmp' = [p \in DOMAIN tmp |->
                   IF p = streams[i].path THEN FileBytes(streams[i].doc_id)
                   ELSE tmp[p]]
    /\ streams' = [streams EXCEPT ![i].pc = "respond"]
    /\ UNCHANGED resp

\* iterfile: open(temp_file_path, "rb") and yield from it (396-397), the file
\* read in one piece; FileNotFoundError when the path is gone
iterfile(i) ==
    /\ streams[i].pc = "respond"
    /\ streams' = [streams EXCEPT
           ![i].pc = "cleanup",
           ![i].sent = IF streams[i].path \in DOMAIN tmp
                       THEN tmp[streams[i].path] ELSE <<>>]
    /\ resp' = WithHeaders(
                   Response("download", 200, "OK", streams'[i].sent,
                            <<"documents.select", "storage.download">>),
                   ContentDisposition(GoodFile.filename))
    /\ UNCHANGED tmp

\* iterfile's finally: os.remove(temp_file_path) if it exists (398-403)
iterfile_finally(i) ==
    /\ streams[i].pc = "cleanup"
    /\ tmp' = [p \in DOMAIN tmp \ {streams[i].path} |-> tmp[p]]
    /\ streams' = [streams EXCEPT ![i].pc = "done"]
    /\ UNCHANGED resp

DownloadBegin ==
    /\ \E i \in Requests, token \in PresentedTokens : download_begin(i, token)
    /\ UNCHANGED <<now, settings, users, docs, pending, sessions, links, wire, minted>>

TempFileOpen ==
    /\ \E i \in Requests : temp_file_open(i)
    /\ UNCHANGED <<now, settings, users, docs, pending, sessions, links, wire, minted>>

TempFileWrite ==
    /\ \E i \in Requests : temp_file_write(i)
    /\ UNCHANGED <<now, settings, users, docs, pending, sessions, links, wire, minted>>

Iterfile ==
    /\ \E i \in Requests : iterfile(i)
    /\ UNCHANGED <<now, settings, users, docs, pending, sessions, links, wire, minted>>

IterfileFinally ==
    /\ \E i \in Requests : iterfile_finally(i)
    /\ UNCHANGED <<now, settings, users, docs, pending, sessions, links, wire, minted>>

\* one document of the first user, and the download token the user was
\* handed for it at process start
InitStream ==
    /\ now = ClockStart
    /\ settings \in Settings
    /\ users = SeedUsers
    /\ docs = {[id |-> 1, filename |-> GoodFile.filename, owner_id |-> 1]}
    /\ pending = {}
    /\ sessions = {}
    /\ links = {Link(make_download_token(1, 1), 1, 1)}
    /\ wire = <<>>
    /\ minted = None
    /\ resp = NoResponse
    /\ tmp = NoFiles
    /\ streams = NoStreams

NextStream ==
    \/ DownloadBegin
    \/ TempFileOpen
    \/ TempFileWrite
    \/ Iterfile
    \/ IterfileFinally
    \/ Tick

SpecStream == InitStream /\ [][NextStream]_vars

-----------------------------------------------------------------------------
(* Claims on concurrent downloads (SpecStream) *)

\* the requests that got as far as choosing a temp file
Served == {i \in Requests : streams[i].pc \notin {"idle"} /\ streams[i].path # <<>>}

\* C26: concurrent downloads do not interfere. Each of two download_document
\* requests for the same document, also within one clock second, streams the
\* complete file content, and the temp file a request has written is still
\* there, whole, when the request comes to stream it: no other request's
\* cleanup has removed it and no other request's write has emptied it.
C26_ConcurrentDownloadsComplete ==
    \A i \in Served :
        /\ streams[i].pc \in {"cleanup", "done"} =>
               streams[i].sent = FileBytes(streams[i].doc_id)
        /\ streams[i].pc = "respond" =>
               /\ streams[i].path \in DOMAIN tmp
               /\ tmp[streams[i].path] = FileBytes(streams[i].doc_id)

-----------------------------------------------------------------------------
(* Claims on store failures (SpecStore) *)

\* the generic failure response, after the given calls
InternalServerError(op, calls) ==
    Response(op, 500, "Internal Server Error", None, calls)

\* login, request_download_token (of an authenticated caller) and
\* download_document (of a token that verifies) answer a raising store call of
\* their body with the generic 500, without a token or a file in the body
C22_State ==
    /\ \A id_number \in IdNumbers :
           login_result(id_number, "users.select")
               = InternalServerError("login", <<"users.select">>)
    /\ \A token \in PresentedSessions, doc_id \in 1..(MaxDocs + 1) :
           get_current_user(token, "none").ok =>
               request_token_result(token, doc_id, "documents.select")
                   = InternalServerError("request_token",
                                         <<"users.select", "documents.select">>)
    /\ \A token \in PresentedTokens :
           verify_download_token(token) # None =>
               download_result(token, "documents.select")
                   = InternalServerError("download", <<"documents.select">>)

\* register answers a raising existence check or insert with the generic 500,
\* and a step of the four operations that answers 500 hands out no session
\* token and no download token and writes no user
C22_Step ==
    /\ (/\ resp'.status = 500
        /\ resp'.op \in {"register", "login", "request_token", "download"}
        /\ resp' # resp) =>
           /\ resp'.detail = "Internal Server Error"
           /\ resp'.body = None
           /\ sessions' = sessions
           /\ links' = links
           /\ users' = users
    /\ resp'.op = "register" =>
           /\ \A name \in Names, id_number \in IdNumbers :
                  (RegisterIn(id_number)
                       /\ register_check(name, id_number, "users.select")) =>
                      resp' = InternalServerError("register", <<"users.select">>)
           /\ \A r \in pending, salt \in Salts :
                  register_insert(r, salt, "users.insert") =>
                      resp' = InternalServerError("register",
                                  <<"users.select", "users.insert">>)

\* C22: when a store call of its own fails during register (existence check
\* or insert), login, request_download_token or download_document, the
\* operation ends with the generic 500 "Internal Server Error", and then no
\* session token or download token is issued and no file content is served.
C22_StoreFailureOpaque == [](C22_State) /\ [][C22_Step]_vars

\* a download token was handed out, a second user registered, and the
\* redemption of the token met a raising documents query
C22_Witness ==
    /\ links # {}
    /\ Cardinality(users) = 2
    /\ resp = InternalServerError("download", <<"documents.select">>)

\* the operations that only validate or read
ReadOnlyOps == {"login", "list", "request_token", "download", "chat"}

\* C23: validation and read-only operations leave the stores unchanged. No
\* step of login, list_documents, request_download_token, download_document
\* or chat (with the token validation each of them runs) inserts, updates or
\* deletes a user record or a document record, whether it succeeds or fails;
\* the user store changes only in a step of register and the document store
\* only in a step of upload_document, and both only gain rows.
C23_Step ==
    /\ users \subseteq users'
    /\ docs \subseteq docs'
    /\ users' # users => resp'.op = "register"
    /\ docs' # docs => resp'.op = "upload"
    /\ (resp'.op \in ReadOnlyOps /\ resp' # resp) =>
           (users' = users /\ docs' = docs)

C23_ReadOnlyOperations == [][C23_Step]_vars

\* after a registration and an upload, a login succeeded and both stores
\* hold what they held
C23_Witness ==
    /\ Cardinality(users) = 2
    /\ docs # {}
    /\ resp.op = "login"
    /\ resp.status = 200

-----------------------------------------------------------------------------
(* Claims on registration (SpecRegister) *)

\* the identifier the row u was registered with
WrittenFor(u) == {id_number \in IdNumbers : u.id_selector = create_selector(id_number)}

UserColumns == {"id", "name", "id_selector", "id_hash", "created_at"}

-----------------------------------------------------------------------------
(* Claims on the document service (SpecDocs) *)

\* the token make_download_token built for the request recorded in l
IssuedFor(l) ==
    l.token = SignedToken(DOWNLOAD_SECRET, IntToStr(l.doc_id), IntToStr(l.caller),
                          IntToStr(l.at + TokenTtl))

OwnsDocument(user_id, doc_id) ==
    \E d \in docs : d.id = doc_id /\ d.owner_id = user_id

\* C1: download_document serves a document only for a token that
\* request_download_token handed out, to the authenticated owner of that very
\* document, and only while the clock is not past the token's expiry; tokens
\* edited or signed without the download secret are never served.
C1_ServedOnlyIssued ==
    \A token \in PresentedTokens, fails \in DownloadFails :
        LET r == download_result(token, fails) IN
        r.status = 200 =>
            \E l \in links :
                /\ l.token = token
                /\ IssuedFor(l)
                /\ OwnsDocument(l.caller, l.doc_id)
                /\ r.body.id = l.doc_id
                /\ r.body.owner_id = l.caller
                /\ now <= l.at + TokenTtl

C1_Witness ==
    /\ resp.op = "download"
    /\ resp.status = 200
    /\ \E l \in links : resp.body.id = l.doc_id /\ resp.body.owner_id = l.caller
    /\ RetargetedTokens # {}
    /\ ForgedTokens # {}

\* whether verify_download_token accepts the token of l when the clock reads t
C3_ValidAt(l, t) == except_return_none(verify_try(l.token, t)) # None

C3_Valid(l) == verify_download_token(l.token) # None

\* a handed-out token carries the expiry t + n and verifies exactly while
\* now <= t + n
C3_State ==
    \A l \in links :
        /\ Split(l.token)[3] = IntToStr(l.at + TokenTtl)
        /\ C3_Valid(l) <=> now <= l.at + TokenTtl

\* no step of the service makes a token verify that did not verify before
\* (a step that keeps the clock cannot change what a token verifies to)
C3_Step ==
    \A l \in links :
        \/ now' = now /\ l \in links'
        \/ ~C3_ValidAt(l, now) => (l \in links' /\ ~C3_ValidAt(l, now'))

\* C3: a token handed out at time t with TTL n carries the absolute expiry
\* t + n, verifies at every clock value up to and including t + n and at none
\* after it, and once it has stopped verifying no operation revives it.
C3_ExpiryAbsolute == [](C3_State) /\ [][C3_Step]_vars

\* a held token is one second past its expiry and a download was refused
C3_Witness ==
    /\ \E l \in links : now = l.at + TokenTtl + 1 /\ ~C3_Valid(l)
    /\ resp.op = "download"
    /\ resp.status = 403

\* C6: request_download_token hands out a token only to an authenticated
\* caller who owns the requested document, and the token is the one
\* make_download_token builds for (document, caller); when the documents query
\* answers and finds no such document of the caller, the answer is 404
\* "Document not found" without a token; so every token handed out names the
\* owner of its document.
C6_TokenOnlyToOwner ==
    /\ \A token \in PresentedSessions, doc_id \in 1..(MaxDocs + 1),
          fails \in {"none", "users.select", "documents.select"} :
           LET r == request_token_result(token, doc_id, fails)
               auth == get_current_user(token, fails)
           IN  /\ r.status = 200 =>
                     /\ auth.ok
                     /\ OwnsDocument(auth.user.id, doc_id)
                     /\ r.body.token = make_download_token(doc_id, auth.user.id)
               /\ r.status # 200 => r.body = None
               /\ (auth.ok /\ fails = "none" /\ ~OwnsDocument(auth.user.id, doc_id)) =>
                     /\ r.status = 404
                     /\ r.detail = "Document not found"
    /\ \A l \in links :
           /\ ParseInt(Split(l.token)[1]) = l.doc_id
           /\ ParseInt(Split(l.token)[2]) = l.caller
           /\ OwnsDocument(l.caller, l.doc_id)

\* a document exists, and a request for a token was answered "not found"
C6_Witness ==
    /\ docs # {}
    /\ resp.op = "request_token"
    /\ resp.status = 404
    /\ resp.detail = "Document not found"
    /\ resp.body = None

\* C18_State: every held token that is not past its expiry and whose document
\* still exists with the same owner is redeemable, whatever was redeemed before
C18_State ==
    \A l \in links :
        (C3_Valid(l) /\ OwnsDocument(l.caller, l.doc_id)) =>
            /\ download_result(l.token, "none").status = 200
            /\ download_result(l.token, "none").body.id = l.doc_id

\* a step that answers a download records nothing (the held tokens and every
\* store are as before), and the answer to a redemption of such a token, the
\* stores answering, is never a refusal
C18_Step ==
    (resp'.op = "download" /\ resp' # resp) =>
        /\ links' = links
        /\ docs' = docs
        /\ users' = users
        /\ sessions' = sessions
        /\ pending' = pending
        /\ resp'.status # 200 =>
               \A l \in links :
                   ~(/\ C3_ValidAt(l, now)
                     /\ OwnsDocument(l.caller, l.doc_id)
                     /\ download_document(l.token, "none"))

C24_TokenFormat ==
    /\ \A d \in {0, 1, MaxId}, o \in {1, MaxId} :
           LET parts == Split(make_download_token(d, o)) IN
           /\ Len(parts) = 4
           /\ parts[1] = IntToStr(d)
           /\ parts[2] = IntToStr(o)
           /\ parts[3] = IntToStr(now + settings.download_token_ttl_seconds)
           /\ parts[4] = HmacHexDigest(DOWNLOAD_SECRET,
                              Join(<<parts[1], parts[2], parts[3]>>))
    /\ \A l \in links :
           LET parts == Split(l.token) IN
           /\ Len(parts) = 4
           /\ parts[1] = IntToStr(l.doc_id)
           /\ parts[2] = IntToStr(l.caller)
           /\ ParseInt(parts[3]) = l.at + settings.download_token_ttl_seconds
           /\ parts[4] = HmacHexDigest(DOWNLOAD_SECRET,
                              Join(<<parts[1], parts[2], parts[3]>>))
    /\ (resp.op = "request_token" /\ resp.status = 200) =>
           /\ resp.body.expires_in = settings.download_token_ttl_seconds
           /\ \E l \in links :
                  /\ l.token = resp.body.token
                  /\ ParseInt(Split(l.token)[3]) = l.at + resp.body.expires_in
           /\ settings.download_token_ttl_seconds = DownloadTokenTtlSeconds =>
                  resp.body.expires_in = 180

\* the service runs with the default TTL and has handed out a token a second
\* or more after it started
C24_Witness ==
    /\ settings.download_token_ttl_seconds = DownloadTokenTtlSeconds
    /\ resp.op = "request_token"
    /\ resp.status = 200
    /\ \E l \in links : l.at > ClockStart /\ l.token = resp.body.token

\* the listing of an authenticated user is exactly the document records of
\* that owner
C25_State ==
    \A token \in PresentedSessions :
        LET auth == get_current_user(token, "none")
            r == list_result(token, "none")
        IN  auth.ok =>
                /\ r.status = 200
                /\ \A d \in r.body : d.owner_id = auth.user.id
                /\ \A d \in docs : d.owner_id = auth.user.id => d \in r.body

\* a new document record names the authenticated uploader as its owner
C25_Step ==
    \A d \in docs' \ docs :
        /\ resp'.op = "upload"
        /\ resp'.body = d
        /\ \E token \in PresentedSessions, file \in Files :
               /\ get_current_user(token, "none").ok
               /\ upload_document(token, file, "none")
               /\ d.owner_id = get_current_user(token, "none").user.id

\* C25: listing isolation. list_documents for an authenticated user returns
\* exactly the document records whose owner_id is that user's id, and
\* upload_document records every new document under the id of the
\* authenticated uploader, so that after any uploads no user's listing holds
\* another user's document.
C25_ListingIsolation == [](C25_State) /\ [][C25_Step]_vars

\* the second user has uploaded a document and the first user's listing was
\* answered without it
C25_Witness ==
    /\ \E d \in docs : d.owner_id = 2
    /\ resp.op = "list"
    /\ resp.status = 200
    /\ resp.body = {}

\* C27: session tokens and capability tokens are not interchangeable. The
\* text of every session token create_access_token issued is refused by
\* verify_download_token and by download_document (403), and every
\* capability token make_download_token issued is refused by
\* get_current_user with the 401 credentials error, before any lookup.
C27_TokensNotInterchangeable ==
    /\ \A t \in sessions :
           /\ verify_download_token(jwt_compact(t)) = None
           /\ \A fails \in DownloadFails :
                  download_result(jwt_compact(t), fails)
                      = Response("download", 403, "Invalid or expired token",
                                 None, <<>>)
    /\ \A c \in HeldTokens \cup {make_download_token(d, o) :
                                      d \in {0, 1, MaxId}, o \in {1, 2}} :
           \A fails \in {"none", "users.select"} :
               get_current_user(bearer(c), fails) = credentials_exception(<<>>)

\* a capability token that download_document serves was refused as a
\* credential, while a session token that authenticates is refused as a
\* download token
C27_Witness ==
    /\ \E l \in links :
           /\ download_result(l.token, "none").status = 200
           /\ bearer(l.token) \in PresentedSessions
    /\ \E t \in sessions :
           /\ get_current_user(t, "none").ok
           /\ jwt_compact(t) \in PresentedTokens
    /\ resp.op \in {"list", "upload", "request_token"}
    /\ resp = AuthFailure(resp.op, credentials_exception(<<>>))

\* the session tokens handed out to the user that still validate
LiveSessions(user_id) ==
    {t \in sessions : /\ get_current_user(t, "none").ok
                      /\ get_current_user(t, "none").user.id = user_id}

\* C19: the capability token is independent of the session.
\* download_document takes no session token, and serves a valid, unexpired
\* capability token of an existing document also when every session token of
\* the owner who requested it has expired.
C19_CapabilityOutlivesSession ==
    \A l \in links :
        (C3_Valid(l) /\ OwnsDocument(l.caller, l.doc_id)) =>
            \A fails \in {"none", "users.select"} :
                LET r == download_result(l.token, fails) IN
                /\ r.status = 200
                /\ r.body.owner_id = l.caller
                /\ "users.select" \notin {r.calls[k] : k \in 1..Len(r.calls)}

\* the owner's session has expired and the link was served
C19_Witness ==
    /\ resp.op = "download"
    /\ resp.status = 200
    /\ \E l \in links :
           /\ C3_Valid(l)
           /\ resp.body.owner_id = l.caller
           /\ LiveSessions(l.caller) = {}

-----------------------------------------------------------------------------
(* Claims on the identity service (Spec) *)

\* a registration with id_number has succeeded: a row made from it is stored
Registered(id_number) ==
    \E u \in users : u.id_hash.digest = Argon2(u.id_hash.salt, id_number)

\* C8: once a registration with identifier i has succeeded, a registration
\* with the same identifier whose existence check the store answers ends at
\* that check with 400 "User already registered": it returns no session token,
\* never reaches the insert, and leaves the users table as it was.
C8_SecondRegistrationConflicts ==
    [][\A name \in Names, id_number \in IdNumbers :
          (Registered(id_number) /\ register_check(name, id_number, "none")) =>
              /\ resp' = Response("register", 400, "User already registered", None,
                                  <<"users.select">>)
              /\ users' = users
              /\ pending' = pending
              /\ sessions' = sessions]_vars

C8_Witness ==
    /\ Registered(ID_A)
    /\ Cardinality(users) = 1
    /\ pending = {}
    /\ resp.op = "register"
    /\ resp.status = 400
    /\ resp.detail = "User already registered"

C10_LoginOnlyVerified ==
    \A id_number \in IdNumbers, fails \in {"none", "users.select"} :
        LET r == login_result(id_number, fails)
            rows == {u \in users : /\ u.id_selector = create_selector(id_number)
                                   /\ verify_password(id_number, u.id_hash)}
        IN  /\ r.body # None =>
                  /\ r.status = 200
                  /\ fails = "none"
                  /\ \E u \in rows : r.body.access_token.claims.sub = u.id_selector
            /\ (rows = {} \/ fails # "none") => (r.status # 200 /\ r.body = None)

\* a registered identifier logged in and got a token for its selector
C10_Witness ==
    /\ Registered(ID_A)
    /\ resp.op = "login"
    /\ resp.status = 200
    /\ resp.body.access_token.claims.sub = create_selector(ID_A)

\* the store answers login(i) with a token for selector(i) exactly for the
\* identifiers registered so far
C11_State ==
    \A i \in IdNumbers :
        LET r == login_result(i, "none") IN
        /\ Registered(i) =>
              /\ r.status = 200
              /\ r.body.access_token.claims.sub = create_selector(i)
              /\ jwt_decode(r.body.access_token, SECRET_KEY).sub = create_selector(i)
        /\ ~Registered(i) => (r.status = 401 /\ r.body = None)

\* a registration is never undone
C11_Step == \A i \in IdNumbers : Registered(i) => Registered(i)'

\* C11: register-then-login. Once register(name, i) has succeeded, every later
\* login(i) the store answers returns a session token whose subject is
\* selector(i), and login(j) for an identifier j never registered is rejected
\* without a token.
C11_RegisterThenLogin == [](C11_State) /\ [][C11_Step]_vars

\* only the second identifier is registered, and it logged in
C11_Witness ==
    /\ Registered(ID_B)
    /\ ~Registered(ID_A)
    /\ resp.op = "login"
    /\ resp.status = 200
    /\ resp.body.access_token.claims.sub = create_selector(ID_B)

\* exactly 13 characters, each a decimal digit
ThirteenDigits(id_number) ==
    Len(id_number) = 13 /\ \A k \in 1..Len(id_number) : id_number[k] \in DigitSet

\* no request in flight and no stored row stems from a malformed identifier
C17_State ==
    /\ \A r \in pending : ThirteenDigits(r.id_number)
    /\ \A i \in IdNumbers : Registered(i) => ThirteenDigits(i)

\* a register request with a malformed identifier ends at once
C17_Step ==
    \A name \in Names, id_number \in IdNumbers, fails \in {"none", "users.select"} :
        (~ThirteenDigits(id_number) /\ register_check(name, id_number, fails)) =>
            /\ resp'.status = 422
            /\ resp'.body = None
            /\ resp'.calls = <<>>
            /\ users' = users
            /\ pending' = pending
            /\ sessions' = sessions

\* C17: register rejects every identifier that is not exactly 13 digits as
\* malformed input (422) before anything else: no users query, no insert, no
\* session token.
C17_MalformedIdentifierRejected == [](C17_State) /\ [][C17_Step]_vars

\* a 14-digit identifier starting with a registered one was refused
C17_Witness ==
    /\ Registered(ID_A)
    /\ ~Registered(ID_LONG)
    /\ resp.op = "register"
    /\ resp.status = 422
    /\ resp.calls = <<>>

-----------------------------------------------------------------------------
(* Claims on login over any users table (SpecLogin) *)

\* login finds no row under the identifier's selector
LoginAbsent(id_number) == UsersBySelector(create_selector(id_number)) = {}

\* login finds a row, and its hash does not verify the identifier
LoginMismatch(id_number) ==
    \E u \in UsersBySelector(create_selector(id_number)) :
        ~verify_password(id_number, u.id_hash)

\* C12: login failure parity. A login for an identifier without a user row
\* and a login whose identifier fails the hash verification against the row
\* found get the same response: status 401, the same detail, the same headers,
\* no token.
C12_LoginFailureParity ==
    \A i \in IdNumbers, j \in IdNumbers :
        (LoginAbsent(i) /\ LoginMismatch(j)) =>
            /\ login_result(i, "none") = login_result(j, "none")
            /\ login_result(j, "none").status = 401
            /\ login_result(j, "none").body = None

\* the row under selector(ID_A) does not verify ID_A, ID_B has no row, and a
\* login was refused
C12_Witness ==
    /\ LoginMismatch(ID_A)
    /\ LoginAbsent(ID_B)
    /\ resp = login_result(ID_A, "none")
    /\ resp.status = 401
    /\ resp.headers = WWWAuthenticate

-----------------------------------------------------------------------------
(* Claims on session validation (SpecAuth) *)

\* the expiry of the session token under test
SessionExpiry == minted.at + 60 * settings.access_token_expire_minutes

\* C13: the session token create_access_token issued for selector s decodes
\* to s at every clock value from its issuance up to and including its expiry,
\* whatever registrations happen meanwhile, and is refused at every clock value
\* after it; the same holds of the tokens registrations hand out.
C13_SessionValidUntilExpiry ==
    /\ minted # None =>
          LET payload == jwt_decode(wire, SECRET_KEY) IN
          /\ now <= SessionExpiry => (payload # JWTError /\ payload.sub = minted.sub)
          /\ now > SessionExpiry =>
                /\ payload = JWTError
                /\ get_current_user(wire, "none") = credentials_exception(<<>>)
    /\ \A t \in sessions :
          IF now <= t.claims.exp
          THEN jwt_decode(t, SECRET_KEY) = t.claims
          ELSE jwt_decode(t, SECRET_KEY) = JWTError

\* the only token in play validated in the very second of its expiry
C13_Witness ==
    /\ minted # None
    /\ now = SessionExpiry
    /\ now > minted.at
    /\ sessions = {}
    /\ resp.op = "list"
    /\ resp.status = 200

\* signed, but not with the server's secret key
BadSignature(token) ==
    /\ {"claims", "signature"} \subseteq DOMAIN token
    /\ token.signature # JwtSignature(SECRET_KEY, token.claims)

\* carries an expiry that has passed
ExpiredSession(token) ==
    /\ {"claims", "signature"} \subseteq DOMAIN token
    /\ "exp" \in DOMAIN token.claims
    /\ token.claims.exp < now

\* carries no subject claim
NoSubject(token) ==
    /\ {"claims", "signature"} \subseteq DOMAIN token
    /\ "sub" \notin DOMAIN token.claims

\* a bearer token that is no JWT
NotAJwt(token) == token # NoToken /\ ~({"claims", "signature"} \subseteq DOMAIN token)

\* C14: get_current_user refuses every token that has a bad signature, is
\* expired, lacks the subject claim or is no JWT with the one 401 "Could not
\* validate credentials", and has not queried the users table by then.
C14_InvalidSessionRejected ==
    \A token \in PresentedSessions, fails \in {"none", "users.select"} :
        (BadSignature(token) \/ ExpiredSession(token) \/ NoSubject(token)
             \/ NotAJwt(token)) =>
            LET auth == get_current_user(token, fails)
                r == list_result(token, fails)
            IN  /\ ~auth.ok
                /\ auth.status = 401
                /\ auth.detail = "Could not validate credentials"
                /\ auth.calls = <<>>
                /\ r.status = 401
                /\ r.detail = "Could not validate credentials"
                /\ r.headers = WWWAuthenticate
                /\ r.calls = <<>>

\* the token under test has expired, a forged one can be presented, and a
\* request was refused before any query
C14_Witness ==
    /\ minted # None
    /\ ExpiredSession(wire)
    /\ ~BadSignature(wire)
    /\ ForgedSessions # {}
    /\ resp.op = "list"
    /\ resp.status = 401
    /\ resp.detail = "Could not validate credentials"
    /\ resp.calls = <<>>

\* signed by the server, not expired, with a subject
ValidSession(token) ==
    /\ {"claims", "signature"} \subseteq DOMAIN token
    /\ ~BadSignature(token)
    /\ ~ExpiredSession(token)
    /\ ~NoSubject(token)

ProtectedFails ==
    {"none", "users.select", "storage.upload", "documents.insert", "documents.select"}

\* C15: get_current_user returns a user only for a valid session token whose
\* selector the users table holds a row for, and returns that row; when there
\* is no such row or the query raises, the request fails with 401, and upload,
\* list and token request end there without any further call.
C15_UserOnlyFromStore ==
    \A token \in PresentedSessions, fails \in ProtectedFails :
        LET auth == get_current_user(token, fails) IN
        /\ auth.ok =>
              /\ ValidSession(token)
              /\ fails # "users.select"
              /\ auth.user \in users
              /\ auth.user.id_selector = token.claims.sub
        /\ (ValidSession(token) /\ (fails = "users.select"
                \/ ~\E u \in users : u.id_selector = token.claims.sub)) =>
              /\ ~auth.ok
              /\ auth.status = 401
        /\ ~auth.ok =>
              \A r \in {upload_result(token, file, fails) : file \in Files}
                        \cup {list_result(token, fails)}
                        \cup {request_token_result(token, doc_id, fails) :
                                  doc_id \in 1..(MaxDocs + 1)} :
                  /\ r.status = 401
                  /\ r.body = None
                  /\ r.calls \in {<<>>, <<"users.select">>}

\* a valid token for a selector the users table has no row for was refused
\* after the query
C15_Witness ==
    /\ minted # None
    /\ ValidSession(wire)
    /\ UsersBySelector(minted.sub) = {}
    /\ resp.op = "list"
    /\ resp.status = 401
    /\ resp.calls = <<"users.select">>

\* C16: optional authentication. The chat endpoint rejects no request over its
\* session token: with the token absent, invalid or expired,
\* get_optional_current_user yields None and the chat proceeds without
\* personalization; with a valid token of a stored user it yields that user.
C16_OptionalAuthNeverRejects ==
    \A token \in PresentedSessions :
        LET r == chat_result(token, "none")
            current_user == get_optional_current_user(token, "none")
        IN  /\ r.status = 200
            /\ current_user.ok
            /\ (token = NoToken \/ ~ValidSession(token)) =>
                  (current_user.user = None /\ r.body.user_context = <<>>)
            /\ (token # NoToken /\ ValidSession(token)
                    /\ UsersBySelector(token.claims.sub) # {}) =>
                  /\ current_user.user \in UsersBySelector(token.claims.sub)
                  /\ r.body.user_context = current_user.user.name

====
